---------------------------- MODULE Spec2Model ----------------------------
(***************************************************************************)
(* Model of notebooks/helper_funcs.py.                                     *)
(*                                                                         *)
(* read_file_custom is a single forward pass over the lines of a report.  *)
(* A Python string is modelled as a sequence of lexical atoms: the markers *)
(* the code searches for ("TEST CASE:", "CONTROL CASE:", "Variable",       *)
(* "(yrs ", ")", the two problem variable names), the blank " ", and       *)
(* plain words and numerals.  `marker in line` is membership of the atom,  *)
(* line.split(marker) cuts the sequence at the atom, str.strip() and       *)
(* str.split() act on the blank atoms (and on the blank that ends the      *)
(* atom "(yrs ").  The empty string is the empty sequence.                 *)
(* The statement `line.strip()` of line 118 discards its result and the    *)
(* parameter verbose only selects what is printed: neither changes state.  *)
(*                                                                         *)
(* shifted_color_map is modelled with exact fractions for its floats; the  *)
(* kind of number passed (Python number or numpy scalar) is an input,      *)
(* because it decides what a division by zero does.                        *)
(***************************************************************************)
EXTENDS Integers, Sequences, FiniteSets, TLC

VARIABLES
    lines,          \* f.read().splitlines()
    var_info_arg,   \* the argument var_info_dict as passed by the caller
    var_info_dict,  \* the local var_info_dict after `if not var_info_dict`
    i,              \* position of the for loop in lines (1-based)
    test_case,      \* local test_case
    years,          \* local years (Unbound until a TEST CASE line sets it)
    control_case,   \* local control_case
    header,         \* local header (Unbound until a TEST CASE line sets it)
    in_data,        \* local in_data
    data,           \* local data: list of line_data lists
    src,            \* history: index in lines of the line behind each entry of data
    pc,             \* "loop" | "done" | "error" | "idle"
    exc,            \* exception that ended the call ("none" while there is none)
    df,             \* the returned table (rows in order), <<>> until returned
    cm,             \* state of a shifted_color_map call
    first,          \* history: how an earlier call on the same arguments ended
    xl              \* state of a read_var_info_michaels_excel call

vars == <<lines, var_info_arg, var_info_dict, i, test_case, years,
          control_case, header, in_data, data, src, pc, exc, df, cm, first, xl>>

parserVars == <<lines, var_info_arg, var_info_dict, i, test_case, years,
                control_case, header, in_data, data, src, pc, exc, df>>

---------------------------------------------------------------------------
(* Bounds of the model *)

MaxLines == 4

\* longest input of the specification of several TEST CASE sections
MaxLines2 == 5

---------------------------------------------------------------------------
(* Python strings as sequences of atoms *)

WS == " "
TEST_MARK == "TEST CASE:"
CTRL_MARK == "CONTROL CASE:"
VAR_MARK == "Variable"
YRS_MARK == "(yrs "
YRS_STRIPPED == "(yrs"
RPAREN == ")"

\* problem_vars, in list order
problem_vars == <<"FSNTOAC_CERES-EBAF", "FSNTOA_CERES-EBAF">>

Range(s) == {s[k] : k \in 1..Len(s)}

\* Python: a in s
Contains(s, a) == a \in Range(s)

IndexOf(s, a) == CHOOSE k \in 1..Len(s) : s[k] = a /\ \A j \in 1..(k-1) : s[j] # a

\* Python: s.split(a), the list of the pieces of s between the occurrences of a
RECURSIVE Split(_, _)
Split(s, a) ==
    IF ~Contains(s, a) THEN <<s>>
    ELSE LET k == IndexOf(s, a)
         IN  <<SubSeq(s, 1, k-1)>> \o Split(SubSeq(s, k+1, Len(s)), a)

RECURSIVE LStrip(_)
LStrip(s) == IF s # <<>> /\ Head(s) = WS THEN LStrip(Tail(s)) ELSE s

RECURSIVE RStrip(_)
RStrip(s) ==
    IF s = <<>> THEN s
    ELSE IF s[Len(s)] = WS THEN RStrip(SubSeq(s, 1, Len(s)-1))
    ELSE IF s[Len(s)] = YRS_MARK THEN Append(SubSeq(s, 1, Len(s)-1), YRS_STRIPPED)
    ELSE s

\* Python: s.strip()
Strip(s) == RStrip(LStrip(s))

\* the blank inside the atom "(yrs " made explicit
RECURSIVE Expand(_)
Expand(s) ==
    IF s = <<>> THEN <<>>
    ELSE IF Head(s) = YRS_MARK THEN <<YRS_STRIPPED, WS>> \o Expand(Tail(s))
    ELSE <<Head(s)>> \o Expand(Tail(s))

RECURSIVE WsTokens(_, _)
WsTokens(s, cur) ==
    IF s = <<>> THEN (IF cur = <<>> THEN <<>> ELSE <<cur>>)
    ELSE IF Head(s) = WS
         THEN (IF cur = <<>> THEN <<>> ELSE <<cur>>) \o WsTokens(Tail(s), <<>>)
         ELSE WsTokens(Tail(s), Append(cur, Head(s)))

\* Python: s.split(), the maximal runs of non-blank text
WsSplit(s) == WsTokens(Expand(s), <<>>)


\* text.join(" "): the words of ws separated by single blanks
RECURSIVE Join(_)
Join(ws) ==
    IF ws = <<>> THEN <<>>
    ELSE IF Len(ws) = 1 THEN <<ws[1]>>
    ELSE <<ws[1], WS>> \o Join(Tail(ws))

---------------------------------------------------------------------------
(* Python values *)

\* a local name that has not been assigned yet
Unbound == <<"<unbound>">>

\* a float: nan, or the number v counted in tenths
Num(n) == [nan |-> FALSE, v |-> n]
NaN == [nan |-> TRUE, v |-> 0]

\* the numerals of the model and the number each denotes, in tenths
NumeralValue ==
    ("1.0" :> 10) @@ ("2.0" :> 20) @@ ("3.0" :> 30) @@ ("4.0" :> 40) @@
    ("1.1" :> 11) @@ ("2.2" :> 22) @@ ("3.3" :> 33) @@
    ("-999" :> -9990) @@ ("-999.0" :> -9990)

\* float(item) succeeds
IsFloat(item) == Len(item) = 1 /\ item[1] \in DOMAIN NumeralValue

\* float(item)
PyFloat(item) == Num(NumeralValue[item[1]])

\* val == -999
IsSentinel(val) == ~val.nan /\ val.v = -9990

\* mutant of ConvertItem: the sentinel is not replaced
ConvertItemNoSentinel(item) == PyFloat(item)

\* val = float(item); if val == -999: val = np.nan
ConvertItem(item) ==
    LET val == PyFloat(item) IN IF IsSentinel(val) THEN NaN ELSE val

\* the header assigned while handling a TEST CASE line
HeaderCols == <<"Run", "Years", "Variable", "Description", "Flag",
                "Model", "Obs", "Bias", "RMSE">>

---------------------------------------------------------------------------
(* Inputs *)

\* the report lines the inputs are built from
H1 == <<TEST_MARK, WS, "run1", WS, YRS_MARK, "1980-2000", RPAREN>>
CC == <<CTRL_MARK, WS, "ctrl1">>
VH == Join(<<VAR_MARK, "Model", "Obs", "Bias", "RMSE">>)
R4 == Join(<<"TEMP", "1.0", "2.0", "3.0", "4.0">>)
R3 == Join(<<"TEMP", "1.0", "2.0", "3.0">>)
R5 == Join(<<"PRECT", "1.0", "2.0", "3.0", "4.0", "-999">>)
\* a blank line
BL == <<>>
\* a row whose second value is no number
RB == Join(<<"TEMP", "1.0", "abc", "3.0", "4.0">>)
PV == Join(<<problem_vars[1], "1.1", "2.2", "3.3", "-999">>)
\* a problem variable with the first value right behind the name and the name
\* once more at the end of the line
PV2 == <<problem_vars[2]>> \o Join(<<"-999.0", "2.2", "3.3", "4.0", problem_vars[2]>>)

LineSet == {H1, CC, VH, R4, R3, R5, BL, RB, PV, PV2}

RECURSIVE SeqsUpTo(_, _)
SeqsUpTo(S, n) ==
    IF n = 0 THEN {<<>>}
    ELSE LET shorter == SeqsUpTo(S, n-1)
         IN  shorter \cup {Append(q, x) : q \in {r \in shorter : Len(r) = n-1}, x \in S}

Inputs == SeqsUpTo(LineSet, MaxLines)

\* the lines of reports with several TEST CASE sections and mixed markers
\* a second header that also holds the two other markers
H2 == <<TEST_MARK, WS, "run2", WS, YRS_MARK, "2001-2010", RPAREN, WS,
        CTRL_MARK, WS, VAR_MARK>>
\* a header without "(yrs "
HN == <<TEST_MARK, WS, "run3">>
\* a CONTROL CASE line that also holds "Variable" and ends with a blank
CV == <<CTRL_MARK, WS, "ctrl2", WS, VAR_MARK, WS>>
\* a "Variable" line that reads like a row: a name and four numbers
VR == Join(<<VAR_MARK, "1.0", "2.0", "3.0", "4.0">>)

CC2 == <<CTRL_MARK, WS, "ctrl3", WS, CTRL_MARK, WS, "ctrl4">>
LineSet2 == {H1, H2, HN, CV, VR, R4, CC2}

Inputs2 == SeqsUpTo(LineSet2, MaxLines2)

\* the inputs that are parsed twice
InputsTwice == SeqsUpTo(LineSet2, MaxLines)

\* description maps as read_var_info_michaels_excel builds them: a variable with
\* a description, a variable with an empty one, every other variable absent
EmptyDict == [k \in {} |-> ""]
SomeDict == (<<"TEMP">> :> "Temperature") @@ (<<problem_vars[1]>> :> "")

\* the argument var_info_dict: None (the default) or a dict
NoneArg == [none |-> TRUE, map |-> EmptyDict]
DictArg(d) == [none |-> FALSE, map |-> d]

DictArgs == {NoneArg, DictArg(SomeDict)}

\* if not var_info_dict: var_info_dict = {}
NormaliseDict(arg) ==
    IF arg.none \/ DOMAIN arg.map = {} THEN EmptyDict ELSE arg.map

---------------------------------------------------------------------------
(* read_file_custom: the classification of a line *)

IsTestCaseLine(line) == Contains(line, TEST_MARK)

\* mutant of IsControlCaseLine: an `if` where the code has `elif`
IsControlCaseLineIf(line) == Contains(line, CTRL_MARK)

IsControlCaseLine(line) == ~IsTestCaseLine(line) /\ Contains(line, CTRL_MARK)
IsVariableLine(line) ==
    ~IsTestCaseLine(line) /\ ~Contains(line, CTRL_MARK) /\ Contains(line, VAR_MARK)
IsOtherLine(line) ==
    ~IsTestCaseLine(line) /\ ~Contains(line, CTRL_MARK) /\ ~Contains(line, VAR_MARK)

---------------------------------------------------------------------------
(* read_file_custom: a TEST CASE line *)

\* mutant of TestCaseSpl: a header without "(yrs " has empty years
TestCaseSplPadded(line) ==
    LET spl == Split(Strip(Split(line, TEST_MARK)[2]), YRS_MARK)
    IN  IF Len(spl) < 2 THEN spl \o << <<>> >> ELSE spl

\* spl = line.split("TEST CASE:")[1].strip().split("(yrs ")
TestCaseSpl(line) == Split(Strip(Split(line, TEST_MARK)[2]), YRS_MARK)

\* test_case = spl[0]
TestCaseOf(line) == TestCaseSpl(line)[1]

\* years = spl[1].split(")")[0]
YearsOf(line) == Split(TestCaseSpl(line)[2], RPAREN)[1]

\* control_case = line.split("CONTROL CASE:")[1].strip()
ControlCaseOf(line) == Strip(Split(line, CTRL_MARK)[2])

---------------------------------------------------------------------------
(* read_file_custom: a data row *)

\* the problem variables that occur in the line, in list order
ProblemHits(line) == SelectSeq(problem_vars, LAMBDA v : Contains(line, v))

\* is_problem_var after the loop over problem_vars
IsProblemVar(line) == ProblemHits(line) # <<>>

\* _var after the loop over problem_vars: the last one that matched
ProblemVarOf(line) == LET hits == ProblemHits(line) IN hits[Len(hits)]

\* spl = line.split(var); spl = spl[1].split()
ProblemSpl(line) == WsSplit(Split(line, ProblemVarOf(line))[2])

\* spl once the variable name has been taken off (the line holds a name)
RowSpl(line) ==
    IF IsProblemVar(line) THEN ProblemSpl(line) ELSE Tail(WsSplit(line))

\* mutant of RowVar: the problem variable names get no handling of their own
RowVarFirstToken(line) == Head(WsSplit(line))

\* _var (the line holds a name)
RowVar(line) ==
    IF IsProblemVar(line) THEN <<ProblemVarOf(line)>> ELSE Head(WsSplit(line))

\* spl.pop(0) on an empty list
PopFails(line) == ~IsProblemVar(line) /\ WsSplit(line) = <<>>

\* if len(spl) == 4
RowAccepted(line) == ~PopFails(line) /\ Len(RowSpl(line)) = 4

\* var_info after the try/except around the lookup
VarInfo(dict, var) ==
    IF var \in DOMAIN dict /\ dict[var] # "" THEN dict[var] ELSE ""

\* mutant of Flag: an empty description counts as a description
FlagKeyPresent(dict, var) == var \in DOMAIN dict

\* flag after the try/except around the lookup
Flag(dict, var) == var \in DOMAIN dict /\ dict[var] # ""

\* the four values appended by the loop over spl
Values(spl) == [k \in 1..Len(spl) |-> ConvertItem(spl[k])]

\* line_data as appended to data
LineData(tc, yrs, dict, line) ==
    LET var == RowVar(line)
    IN  <<tc, yrs, var, VarInfo(dict, var), Flag(dict, var)>> \o Values(RowSpl(line))

\* mutant of AppendRow: a row equal to an earlier one is not added again
AppendRowNoDup(rows, row) == IF row \in Range(rows) THEN rows ELSE Append(rows, row)

\* data.append(line_data)
AppendRow(rows, row) == Append(rows, row)

\* DataFrame(data, columns=header); set_index(...) keeps the rows and their order
Row(cols, line_data) ==
    [c \in Range(cols) |-> line_data[CHOOSE k \in 1..Len(cols) : cols[k] = c]]

DataFrame(rows, cols) == [k \in 1..Len(rows) |-> Row(cols, rows[k])]

---------------------------------------------------------------------------
(* shifted_color_map: numbers *)

\* largest |vmin|, |vmax| of the model
MaxAbs == 4

\* np.linspace(0, 1, 257)
NReg == 257
\* np.linspace(0.0, midpoint, 128, endpoint=False)
NLower == 128
\* np.linspace(midpoint, 1.0, 129, endpoint=True)
NUpper == 129

Abs(x) == IF x < 0 THEN -x ELSE x

RECURSIVE GCD(_, _)
GCD(a, b) == IF b = 0 THEN Abs(a) ELSE GCD(b, a % b)

\* a float as an exact fraction in lowest terms with den > 0, or nan
FNaN == [nan |-> TRUE, num |-> 0, den |-> 1]
Frac(n, d) ==
    LET g == GCD(n, d)
        sgn == IF d < 0 THEN -1 ELSE 1
    IN  [nan |-> FALSE, num |-> sgn * (n \div g), den |-> sgn * (d \div g)]
FInt(n) == Frac(n, 1)

FAdd(x, y) ==
    IF x.nan \/ y.nan THEN FNaN ELSE Frac(x.num * y.den + y.num * x.den, x.den * y.den)
FSub(x, y) ==
    IF x.nan \/ y.nan THEN FNaN ELSE Frac(x.num * y.den - y.num * x.den, x.den * y.den)
\* x * k / n for integers k and n > 0
FScale(x, k, n) == IF x.nan THEN FNaN ELSE Frac(x.num * k, x.den * n)

\* np.linspace(start, stop, num, endpoint): start + k*step for k = 0..num-1 with
\* step = (stop - start) / (num - 1 if endpoint else num)
Linspace(start, stop, num, endpoint) ==
    LET div == IF endpoint THEN num - 1 ELSE num
    IN  [k \in 1..num |-> FAdd(start, FScale(FSub(stop, start), k - 1, div))]

\* the kinds of number a caller passes: a Python int or float, or a numpy scalar
NumKinds == {"py", "np"}

\* abs(vmax) + abs(vmin) is zero
ZeroDenominator(vmin, vmax) == Abs(vmax) + Abs(vmin) = 0

\* the division of line 36 raises ZeroDivisionError: Python numbers only
\* (numpy scalars give nan and a RuntimeWarning)
DivisionRaises(kind, vmin, vmax) == kind = "py" /\ ZeroDenominator(vmin, vmax)

\* midpoint = 1 - abs(vmax)/(abs(vmax) + abs(vmin)), when the division does not raise
Midpoint(vmin, vmax) ==
    IF ZeroDenominator(vmin, vmax) THEN FNaN
    ELSE FSub(FInt(1), Frac(Abs(vmax), Abs(vmax) + Abs(vmin)))

\* reg_index
RegIndex == Linspace(FInt(0), FInt(1), NReg, TRUE)

\* mutant of ShiftIndex: the lower half sampled with its endpoint
ShiftIndexEndpoint(midpoint) ==
    Linspace(FInt(0), midpoint, NLower, TRUE) \o Linspace(midpoint, FInt(1), NUpper, TRUE)

\* shift_index = np.hstack([...])
ShiftIndex(midpoint) ==
    Linspace(FInt(0), midpoint, NLower, FALSE) \o Linspace(midpoint, FInt(1), NUpper, TRUE)

\* the cmap argument: None, the name of a colormap, or a colormap
CmapArgs == {[kind |-> "none", name |-> ""], [kind |-> "str", name |-> "RdBu"],
             [kind |-> "cmap", name |-> "coolwarm"]}

\* cmap after lines 31-34
ResolveCmap(arg) == IF arg.kind = "none" THEN "seismic" ELSE arg.name

\* cdict after the loop over zip(reg_index, shift_index): one entry (si, c, c) per
\* pair, c the colour cmap(ri) (the four channels carry the same positions)
CDict(cmap, midpoint) ==
    LET shift == ShiftIndex(midpoint)
    IN  [k \in 1..NReg |-> [x |-> shift[k], colour |-> <<cmap, RegIndex[k]>>]]

\* colors.LinearSegmentedColormap('shiftedcmap', cdict)
LinearSegmentedColormap(name, cdict) == [name |-> name, segmentdata |-> cdict]

NoColormap == [name |-> "", segmentdata |-> <<>>]

CmState(p, kind, vmin, vmax, arg, cmap, midpoint, result, e) ==
    [pc |-> p, kind |-> kind, vmin |-> vmin, vmax |-> vmax, arg |-> arg,
     cmap |-> cmap, midpoint |-> midpoint, result |-> result, exc |-> e]

\* no call of shifted_color_map is under way
CmIdle == CmState("idle", "py", 0, 0, [kind |-> "none", name |-> ""], "", FInt(0),
                  NoColormap, "none")

---------------------------------------------------------------------------
(* read_var_info_michaels_excel: the sheet *)

\* most rows of a sheet of the model
MaxRows == 3

\* cell.value: the text of a text cell ('' for an empty cell) or the float of a
\* number cell
Text(s) == [type |-> "str", s |-> s, n |-> 0]
Number(n) == [type |-> "float", s |-> "", n |-> n]

\* the cell values of column 1 (the key) and column 2 (the description)
KeyCells == {Text(""), Text("TEMP"), Text("PRECT"), Number(0)}
DescCells == {Text(""), Text("Temperature"), Text("Rain")}

\* a row of the sheet "DATA": sheet.col(1)[i].value and sheet.col(2)[i].value
SheetRows == [key : KeyCells, desc : DescCells]

\* if cell.value: false for '' and for 0.0
Truthy(value) == IF value.type = "str" THEN value.s # "" ELSE value.n # 0

\* mutant of SetItem: the first value stored under a key stays
SetItemFirst(result, key, value) ==
    [k \in DOMAIN result \cup {key} |-> IF k \in DOMAIN result THEN result[k] ELSE value]

\* result[cell.value] = sheet.col(2)[i].value
SetItem(result, key, value) ==
    [k \in DOMAIN result \cup {key} |-> IF k = key THEN value ELSE result[k]]

XlState(p, has_sheet, rows, idx, result, e) ==
    [pc |-> p, has_sheet |-> has_sheet, rows |-> rows, i |-> idx,
     result |-> result, exc |-> e]

\* no call of read_var_info_michaels_excel is under way
XlIdle == XlState("idle", FALSE, <<>>, 1, EmptyDict, "none")

\* the workbooks of the model: without a sheet "DATA", or with one of up to
\* MaxRows rows
Workbooks ==
    {[has_sheet |-> FALSE, rows |-> <<>>]} \cup
    {[has_sheet |-> TRUE, rows |-> rows] : rows \in SeqsUpTo(SheetRows, MaxRows)}

---------------------------------------------------------------------------
(* read_file_custom: the call *)

\* no earlier call is on record
NoFirst == [set |-> FALSE, pc |-> "idle", exc |-> "none", df |-> <<>>]

\* the state when the for loop is entered (lines 106-116), for the lines and
\* the description map given
Enter(ls, arg) ==
    /\ lines = ls
    /\ var_info_arg = arg
    /\ var_info_dict = NormaliseDict(arg)
    /\ i = 1
    /\ test_case = <<>>
    /\ years = Unbound
    /\ control_case = <<>>
    /\ header = Unbound
    /\ in_data = FALSE
    /\ data = <<>>
    /\ src = <<>>
    /\ pc = "loop"
    /\ exc = "none"
    /\ df = <<>>

\* no call of read_file_custom is under way
ParserIdle ==
    /\ lines = <<>>
    /\ var_info_arg = NoneArg
    /\ var_info_dict = EmptyDict
    /\ i = 1
    /\ test_case = <<>>
    /\ years = Unbound
    /\ control_case = <<>>
    /\ header = Unbound
    /\ in_data = FALSE
    /\ data = <<>>
    /\ src = <<>>
    /\ pc = "idle"
    /\ exc = "none"
    /\ df = <<>>
    /\ first = NoFirst

Init ==
    /\ \E ls \in Inputs, arg \in DictArgs : Enter(ls, arg)
    /\ first = NoFirst
    /\ cm = CmIdle
    /\ xl = XlIdle

AtLine == pc = "loop" /\ i <= Len(lines)

\* an exception leaves the function: nothing is returned
Raise(e) == pc' = "error" /\ exc' = e /\ i' = i

\* the loop goes on to the next line
NextLine == pc' = pc /\ exc' = exc /\ i' = i + 1

\* mutant of TestCaseLine: only the first header of a file sets test_case and
\* years
TestCaseLineFirstOnly ==
    /\ AtLine
    /\ IsTestCaseLine(lines[i])
    /\ test_case' = IF header = Unbound THEN TestCaseOf(lines[i]) ELSE test_case
    /\ IF Len(TestCaseSpl(lines[i])) < 2
       THEN /\ Raise("IndexError")
            /\ UNCHANGED <<years, header>>
       ELSE /\ years' = IF header = Unbound THEN YearsOf(lines[i]) ELSE years
            /\ header' = HeaderCols
            /\ NextLine
    /\ UNCHANGED <<lines, var_info_arg, var_info_dict, control_case, in_data,
                   data, src, df, cm, first, xl>>

\* if "TEST CASE:" in line
TestCaseLine ==
    /\ AtLine
    /\ IsTestCaseLine(lines[i])
    /\ test_case' = TestCaseOf(lines[i])
    /\ IF Len(TestCaseSpl(lines[i])) < 2
       THEN /\ Raise("IndexError")
            /\ UNCHANGED <<years, header>>
       ELSE /\ years' = YearsOf(lines[i])
            /\ header' = HeaderCols
            /\ NextLine
    /\ UNCHANGED <<lines, var_info_arg, var_info_dict, control_case, in_data,
                   data, src, df, cm, first, xl>>

\* elif "CONTROL CASE:" in line
ControlCaseLine ==
    /\ AtLine
    /\ IsControlCaseLine(lines[i])
    /\ control_case' = ControlCaseOf(lines[i])
    /\ NextLine
    /\ UNCHANGED <<lines, var_info_arg, var_info_dict, test_case, years, header,
                   in_data, data, src, df, cm, first, xl>>

\* elif "Variable" in line
VariableLine ==
    /\ AtLine
    /\ IsVariableLine(lines[i])
    /\ in_data' = TRUE
    /\ NextLine
    /\ UNCHANGED <<lines, var_info_arg, var_info_dict, test_case, years,
                   control_case, header, data, src, df, cm, first, xl>>

\* elif in_data
DataLine ==
    /\ AtLine
    /\ IsOtherLine(lines[i])
    /\ in_data
    /\ LET line == lines[i]
       IN  IF PopFails(line)
           THEN \* _var = spl.pop(0) on an empty list
                Raise("IndexError") /\ UNCHANGED <<data, src>>
           ELSE IF ~RowAccepted(line)
           THEN NextLine /\ UNCHANGED <<data, src>>
           ELSE IF years = Unbound
           THEN \* line_data.extend([test_case, years, _var]) before years is assigned
                Raise("UnboundLocalError") /\ UNCHANGED <<data, src>>
           ELSE IF \E k \in 1..4 : ~IsFloat(RowSpl(line)[k])
           THEN \* val = float(item)
                Raise("ValueError") /\ UNCHANGED <<data, src>>
           ELSE /\ data' = AppendRow(data, LineData(test_case, years, var_info_dict, line))
                /\ src' = Append(src, i)
                /\ NextLine
    /\ UNCHANGED <<lines, var_info_arg, var_info_dict, test_case, years,
                   control_case, header, in_data, df, cm, first, xl>>

\* else: the line is ignored
IgnoreLine ==
    /\ AtLine
    /\ IsOtherLine(lines[i])
    /\ ~in_data
    /\ NextLine
    /\ UNCHANGED <<lines, var_info_arg, var_info_dict, test_case, years,
                   control_case, header, in_data, data, src, df, cm, first, xl>>

\* mutant of Return: the column names are there without a TEST CASE line
ReturnDefaultColumns ==
    /\ pc = "loop"
    /\ i > Len(lines)
    /\ df' = DataFrame(data, HeaderCols)
    /\ pc' = "done"
    /\ UNCHANGED <<lines, var_info_arg, var_info_dict, i, test_case, years,
                   control_case, header, in_data, data, src, exc, cm, first, xl>>

\* df = DataFrame(data, columns=header); df.set_index(...); return df
Return ==
    /\ pc = "loop"
    /\ i > Len(lines)
    /\ IF header = Unbound
       THEN Raise("UnboundLocalError") /\ df' = df
       ELSE /\ df' = DataFrame(data, header)
            /\ pc' = "done"
            /\ exc' = exc
            /\ i' = i
    /\ UNCHANGED <<lines, var_info_arg, var_info_dict, test_case, years,
                   control_case, header, in_data, data, src, cm, first, xl>>

Next ==
    \/ TestCaseLine
    \/ ControlCaseLine
    \/ VariableLine
    \/ DataLine
    \/ IgnoreLine
    \/ Return

Spec == Init /\ [][Next]_vars

\* reports with several TEST CASE sections
Init2 ==
    /\ \E ls \in Inputs2 : Enter(ls, DictArg(SomeDict))
    /\ first = NoFirst
    /\ cm = CmIdle
    /\ xl = XlIdle

Spec2 == Init2 /\ [][Next]_vars

---------------------------------------------------------------------------
(* read_file_custom: a second call with the same arguments *)

\* mutant of InitialData: the list outlives the call (a module-level list or a
\* mutable default argument)
CarriedData == data

\* data = [] (line 113): a new list in every call
InitialData == <<>>

\* in_data = False (line 115)
InitialInData == FALSE

\* the call has ended and is made again on the same file and description map:
\* the locals of the new call are those of lines 106-116, years and header are
\* not bound in the new frame
CallAgain ==
    /\ pc \in {"done", "error"}
    /\ ~first.set
    /\ first' = [set |-> TRUE, pc |-> pc, exc |-> exc, df |-> df]
    /\ var_info_dict' = NormaliseDict(var_info_arg)
    /\ i' = 1
    /\ test_case' = <<>>
    /\ years' = Unbound
    /\ control_case' = <<>>
    /\ header' = Unbound
    /\ in_data' = InitialInData
    /\ data' = InitialData
    /\ src' = <<>>
    /\ pc' = "loop"
    /\ exc' = "none"
    /\ df' = <<>>
    /\ UNCHANGED <<lines, var_info_arg, cm, xl>>

InitTwice ==
    /\ \E ls \in InputsTwice, arg \in DictArgs : Enter(ls, arg)
    /\ first = NoFirst
    /\ cm = CmIdle
    /\ xl = XlIdle

NextTwice ==
    \/ Next
    \/ CallAgain

SpecTwice == InitTwice /\ [][NextTwice]_vars

---------------------------------------------------------------------------
(* shifted_color_map: the call *)

InitCmap ==
    /\ ParserIdle
    /\ xl = XlIdle
    /\ \E kind \in NumKinds, vmin \in -MaxAbs..MaxAbs, vmax \in -MaxAbs..MaxAbs,
          arg \in CmapArgs :
          cm = CmState("start", kind, vmin, vmax, arg, "", FInt(0), NoColormap, "none")

\* lines 31-34
CmResolve ==
    /\ cm.pc = "start"
    /\ cm' = [cm EXCEPT !.pc = "resolved", !.cmap = ResolveCmap(cm.arg)]
    /\ UNCHANGED <<parserVars, first, xl>>

\* line 36
CmMidpoint ==
    /\ cm.pc = "resolved"
    /\ IF DivisionRaises(cm.kind, cm.vmin, cm.vmax)
       THEN cm' = [cm EXCEPT !.pc = "error", !.exc = "ZeroDivisionError"]
       ELSE cm' = [cm EXCEPT !.pc = "midpoint", !.midpoint = Midpoint(cm.vmin, cm.vmax)]
    /\ UNCHANGED <<parserVars, first, xl>>

\* lines 37-61
CmBuild ==
    /\ cm.pc = "midpoint"
    /\ cm' = [cm EXCEPT !.pc = "returned",
                        !.result = LinearSegmentedColormap("shiftedcmap",
                                       CDict(cm.cmap, cm.midpoint))]
    /\ UNCHANGED <<parserVars, first, xl>>

NextCmap ==
    \/ CmResolve
    \/ CmMidpoint
    \/ CmBuild

SpecCmap == InitCmap /\ [][NextCmap]_vars

----------------------------------------------------------------------------
(* read_var_info_michaels_excel: the call *)

InitXls ==
    /\ ParserIdle
    /\ cm = CmIdle
    /\ \E wb \in Workbooks :
          xl = XlState("start", wb.has_sheet, wb.rows, 1, EmptyDict, "none")

\* workbook.sheet_by_name('DATA'); result = {}
XlOpen ==
    /\ xl.pc = "start"
    /\ IF xl.has_sheet
       THEN xl' = [xl EXCEPT !.pc = "loop", !.result = EmptyDict, !.i = 1]
       ELSE xl' = [xl EXCEPT !.pc = "error", !.exc = "XLRDError"]
    /\ UNCHANGED <<parserVars, first, cm>>

\* one pass of the loop over enumerate(sheet.col(1))
XlRow ==
    /\ xl.pc = "loop"
    /\ xl.i <= Len(xl.rows)
    /\ LET row == xl.rows[xl.i]
       IN  xl' = [xl EXCEPT !.i = xl.i + 1,
                            !.result = IF Truthy(row.key)
                                       THEN SetItem(xl.result, row.key, row.desc)
                                       ELSE xl.result]
    /\ UNCHANGED <<parserVars, first, cm>>

\* return result
XlReturn ==
    /\ xl.pc = "loop"
    /\ xl.i > Len(xl.rows)
    /\ xl' = [xl EXCEPT !.pc = "returned"]
    /\ UNCHANGED <<parserVars, first, cm>>

NextXls ==
    \/ XlOpen
    \/ XlRow
    \/ XlReturn

SpecXls == InitXls /\ [][NextXls]_vars

---------------------------------------------------------------------------
(* Properties of read_file_custom, stated over the input lines *)

LineIdx == 1..Len(lines)
RecIdx == 1..Len(data)

\* the last TEST CASE line before line k (0: there is none)
HeaderBefore(k) ==
    IF \E h \in 1..(k-1) : IsTestCaseLine(lines[h])
    THEN CHOOSE h \in 1..(k-1) :
            /\ IsTestCaseLine(lines[h])
            /\ \A j \in (h+1)..(k-1) : ~IsTestCaseLine(lines[j])
    ELSE 0

\* a "Variable" line was handled before line k
SeenVariable(k) == \E j \in 1..(k-1) : IsVariableLine(lines[j])

\* line k is reached in the data section and holds none of the three markers
DataSectionLine(k) == k \in LineIdx /\ IsOtherLine(lines[k]) /\ SeenVariable(k)

\* the handling of line k ended the call with an exception
FailedAt(k) == pc = "error" /\ i = k

\* line k was handled and the loop went on
PassedLine(k) == i > k

\* the numeric fields of entry r of data, in order
RecValues(r) == SubSeq(data[r], 6, Len(data[r]))

\* C1: every record emitted after a header "TEST CASE: <run> (yrs <years>)" has
\* run = the text between the marker and "(yrs " with the blanks at both ends
\* removed and years = the text between "(yrs " and the next ")"; the four-line
\* input H1, CC, VH, R4 yields exactly one record run1 / 1980-2000 / TEMP /
\* 1.0 2.0 3.0 4.0.
C1_HeaderRunYears ==
    /\ \A r \in RecIdx :
          LET h == HeaderBefore(src[r])
              rest == Split(lines[h], TEST_MARK)[2]
          IN  h > 0 =>
                /\ data[r][1] = Strip(Split(rest, YRS_MARK)[1])
                /\ data[r][2] = Split(Split(rest, YRS_MARK)[2], RPAREN)[1]
    /\ (lines = <<H1, CC, VH, R4>> /\ pc = "done") =>
          /\ Len(df) = 1
          /\ df[1].Run = <<"run1">>
          /\ df[1].Years = <<"1980-2000">>
          /\ df[1].Variable = <<"TEMP">>
          /\ <<df[1].Model, df[1].Obs, df[1].Bias, df[1].RMSE>>
                = <<Num(10), Num(20), Num(30), Num(40)>>

\* the tokens after the variable name of a line (none on a blank line)
C2_NumTokens(line) ==
    IF IsProblemVar(line) THEN ProblemSpl(line)
    ELSE IF WsSplit(line) = <<>> THEN <<>>
    ELSE Tail(WsSplit(line))

\* C2: a data-section line whose numeric tokens are not exactly 4 (0 tokens, a
\* blank line, 3 tokens, 5 or more) emits no record and raises no error, the
\* loop goes on; every emitted record has exactly 4 numeric fields.
C2_WrongCountDropped ==
    /\ \A k \in LineIdx :
          (DataSectionLine(k) /\ Len(C2_NumTokens(lines[k])) # 4) =>
             /\ ~FailedAt(k)
             /\ \A r \in RecIdx : src[r] # k
    /\ \A r \in RecIdx : Len(RecValues(r)) = 4

\* a row of a name and four numbers
ValidRow(line) ==
    /\ ~PopFails(line)
    /\ Len(RowSpl(line)) = 4
    /\ \A t \in 1..4 : IsFloat(RowSpl(line)[t])

\* C3: a valid 4-token row handled in the data section before any TEST CASE
\* line is emitted as a record with run = "" and years = "", without error.
C3_RowBeforeHeader ==
    \A k \in LineIdx :
       (DataSectionLine(k) /\ ValidRow(lines[k]) /\ HeaderBefore(k) = 0
          /\ (FailedAt(k) \/ PassedLine(k))) =>
             /\ ~FailedAt(k)
             /\ \E r \in RecIdx :
                   src[r] = k /\ data[r][1] = <<>> /\ data[r][2] = <<>>

\* no "Variable" line lies strictly between lines h and k
C4_NoVariableBetween(h, k) == \A j \in (h+1)..(k-1) : ~IsVariableLine(lines[j])

\* C4: after any TEST CASE line, the first or a later one, in_data is false
\* until the next "Variable" line, no line in between is taken as a data row (it
\* emits no record and raises no error).
C4_HeaderResetsDataSection ==
    \A h \in LineIdx :
       IsTestCaseLine(lines[h]) =>
          /\ (pc = "loop" /\ i > h /\ C4_NoVariableBetween(h, i)) => ~in_data
          /\ \A r \in RecIdx : ~(src[r] > h /\ C4_NoVariableBetween(h, src[r]))
          /\ \A k \in LineIdx :
                (k > h /\ C4_NoVariableBetween(h, k) /\ IsOtherLine(lines[k]))
                   => ~FailedAt(k)

\* a row with exactly 4 numeric tokens of which one is no number
BadRow(line) ==
    /\ ~PopFails(line)
    /\ Len(RowSpl(line)) = 4
    /\ \E t \in 1..4 : ~IsFloat(RowSpl(line)[t])

\* C5: a data row with exactly 4 numeric tokens of which one is no number ends
\* the call with a conversion error: the loop never goes past the row, no
\* record is emitted for it and no table is returned.
C5_BadNumberIsFatal ==
    \A k \in LineIdx :
       (DataSectionLine(k) /\ BadRow(lines[k])) =>
          /\ ~PassedLine(k)
          /\ pc # "done"
          /\ FailedAt(k) => exc = "ValueError"
          /\ \A r \in RecIdx : src[r] # k


\* the number a numeral token denotes, in tenths
Denotes(tok) == NumeralValue[tok[1]]

\* the tokens the four values of entry r of data were converted from
SrcTokens(r) == RowSpl(lines[src[r]])

\* the four values of row r of the returned table, in column order
DfValues(r) == <<df[r].Model, df[r].Obs, df[r].Bias, df[r].RMSE>>

C7_Names(line) == {n \in Range(problem_vars) : Contains(line, n)}

\* everything in the line after the first occurrence of the name
C7_After(line, name) == SubSeq(line, IndexOf(line, name) + 1, Len(line))

\* the text up to the next occurrence of the name (all of it if there is none)
C7_UpToNext(text, name) ==
    IF Contains(text, name) THEN SubSeq(text, 1, IndexOf(text, name) - 1) ELSE text

\* a record's variable and values are those of the name and the tokens given
C7_RecordIs(r, var, toks) ==
    /\ data[r][3] = var
    /\ Len(toks) = 4
    /\ \A t \in 1..4 : RecValues(r)[t] = ConvertItem(toks[t])

\* C7 as claimed: a record read from a line holding a problem variable name has
\* that name as variable and the whitespace-split of everything after the name
\* as numeric tokens; a record read from any other line has the first token as
\* variable and the remaining tokens as numeric tokens.
C7_TokensAreRestOfLine ==
    \A r \in RecIdx :
       LET line == lines[src[r]]
       IN  IF C7_Names(line) # {}
           THEN \E n \in C7_Names(line) :
                   C7_RecordIs(r, <<n>>, WsSplit(C7_After(line, n)))
           ELSE C7_RecordIs(r, Head(WsSplit(line)), Tail(WsSplit(line)))

\* the name a line is split on: the last of problem_vars that occurs in it
C7_Matched(line) ==
    IF Contains(line, problem_vars[2]) THEN problem_vars[2] ELSE problem_vars[1]

\* the numeric tokens of a line as amended
C7_Tokens(line) ==
    IF C7_Names(line) # {}
    THEN WsSplit(C7_UpToNext(C7_After(line, C7_Matched(line)), C7_Matched(line)))
    ELSE Tail(WsSplit(line))

\* C7 (amended): a record read from a line holding a problem variable name has
\* that name as variable and, as numeric tokens, the whitespace-split of the
\* text between the first occurrence of the name and its next occurrence (the
\* end of the line if it occurs once); a record read from any other line has
\* the first token as variable and the remaining tokens as numeric tokens; and
\* every line the loop handled as a data row and went past whose numeric
\* tokens, so defined, number four has a record.
C7_TokensUpToNextName ==
    /\ \A r \in RecIdx :
          LET line == lines[src[r]]
          IN  C7_RecordIs(r,
                 IF C7_Names(line) # {} THEN <<C7_Matched(line)>>
                                        ELSE Head(WsSplit(line)),
                 C7_Tokens(line))
    /\ \A k \in LineIdx :
          (DataSectionLine(k) /\ PassedLine(k) /\ WsSplit(lines[k]) # <<>>
             /\ Len(C7_Tokens(lines[k])) = 4)
                => \E r \in RecIdx : src[r] = k

\* records read from PV (name, blank, four tokens) and from PV2 (first value
\* right behind the name, the name once more at the end of the line)
C7_Witness ==
    /\ \E r \in RecIdx :
          /\ lines[src[r]] = PV2
          /\ data[r][3] = <<problem_vars[2]>>
          /\ RecValues(r) = <<NaN, Num(22), Num(33), Num(40)>>
    /\ \E r \in RecIdx :
          /\ lines[src[r]] = PV
          /\ data[r][3] = <<problem_vars[1]>>
          /\ RecValues(r)[4] = NaN

\* the description map supplied holds a non-empty description of var
C8_Described(var) ==
    /\ ~var_info_arg.none
    /\ var \in DOMAIN var_info_arg.map
    /\ var_info_arg.map[var] # ""

\* C8: has_description of a record is true if and only if its variable is a key
\* of the supplied description map with a non-empty value, and description is
\* then that value; otherwise (key absent, value empty, no map supplied)
\* has_description is false and description is the empty string.
C8_Description ==
    /\ \A r \in RecIdx :
          LET var == data[r][3]
          IN  /\ data[r][5] = C8_Described(var)
              /\ data[r][4] = IF C8_Described(var) THEN var_info_arg.map[var] ELSE ""
    /\ pc = "done" =>
          \A r \in RecIdx :
             /\ df[r].Flag = data[r][5]
             /\ df[r].Description = data[r][4]

\* a returned table with a described variable, a variable whose description is
\* empty and a variable that is no key of the map
C8_Witness ==
    /\ pc = "done"
    /\ \E r \in RecIdx :
          /\ df[r].Variable = <<"TEMP">>
          /\ df[r].Flag
          /\ df[r].Description = "Temperature"
    /\ \E r \in RecIdx :
          /\ df[r].Variable = <<problem_vars[1]>>
          /\ df[r].Variable \in DOMAIN var_info_arg.map
          /\ ~df[r].Flag
          /\ df[r].Description = ""

\* the indices up to k of the lines accepted as data rows, in input order
RECURSIVE C9_Accepted(_)
C9_Accepted(k) ==
    IF k = 0 THEN <<>>
    ELSE IF DataSectionLine(k) /\ RowAccepted(lines[k])
         THEN Append(C9_Accepted(k - 1), k)
         ELSE C9_Accepted(k - 1)

\* C9: the returned table holds exactly one record per accepted data row (a
\* data-section line with exactly 4 numeric tokens), in the order of the source
\* lines, nothing duplicated, reordered or merged.
C9_OneRecordPerRowInOrder ==
    pc = "done" =>
       LET rows == C9_Accepted(Len(lines))
       IN  /\ Len(df) = Len(rows)
           /\ \A r \in 1..Len(rows) :
                 /\ df[r].Variable = RowVar(lines[rows[r]])
                 /\ DfValues(r) = Values(RowSpl(lines[rows[r]]))

\* a returned table whose first two rows are equal (same run, years, variable,
\* same values), read from two equal lines
C9_Witness ==
    /\ pc = "done"
    /\ Len(df) >= 2
    /\ df[1] = df[2]
    /\ lines[src[1]] = lines[src[2]]

---------------------------------------------------------------------------
(* Properties of shifted_color_map *)

\* C10: shifted_color_map called with vmin = 0 and vmax = 0 ends in an error
\* and never returns a colormap built from a NaN midpoint.
C10_ZeroRangeIsError ==
    /\ (cm.vmin = 0 /\ cm.vmax = 0) => cm.pc # "returned"
    /\ cm.pc = "returned" => ~cm.midpoint.nan


\* the position the claim gives to base sample number n (n = 0 .. 256), with
\* midpoint = 1 - |vmax|/(|vmax|+|vmin|) = |vmin|/(|vmax|+|vmin|)
C15_Position(n, vmin, vmax) ==
    LET sum == Abs(vmax) + Abs(vmin)
    IN  IF n < NLower
        THEN Frac(n * Abs(vmin), NLower * sum)
        ELSE Frac(NLower * Abs(vmin) + (n - NLower) * Abs(vmax), NLower * sum)

\* a <= b for two fractions that are numbers
C15_Leq(a, b) == ~a.nan /\ ~b.nan /\ a.num * b.den <= b.num * a.den

\* C15: for vmin, vmax not both zero the returned colormap holds the 257 base
\* samples, sample n taken at base position n/256, at positions that do not
\* decrease from 0 to 1: n*midpoint/128 for n = 0..127 and
\* midpoint + (n-128)*(1-midpoint)/128 for n = 128..256, so that the base colour
\* at 0.5 (n = 128) sits at midpoint.
C15_ShiftedPositions ==
    (cm.pc = "returned" /\ ~(cm.vmin = 0 /\ cm.vmax = 0)) =>
       LET seg == cm.result.segmentdata
           mid == FSub(FInt(1), Frac(Abs(cm.vmax), Abs(cm.vmax) + Abs(cm.vmin)))
       IN  /\ Len(seg) = NReg
           /\ \A k \in 1..NReg :
                 /\ seg[k].colour = <<cm.cmap, Frac(k - 1, NReg - 1)>>
                 /\ seg[k].x = C15_Position(k - 1, cm.vmin, cm.vmax)
           /\ \A k \in 1..(NReg - 1) : C15_Leq(seg[k].x, seg[k+1].x)
           /\ seg[1].x = FInt(0)
           /\ seg[NReg].x = FInt(1)
           /\ seg[NLower + 1].x = mid
           /\ seg[NLower + 1].colour = <<cm.cmap, Frac(1, 2)>>

\* vmin = -2, vmax = 4: the base colour at 0.5 is returned at position 1/3
C15_Witness ==
    /\ cm.pc = "returned"
    /\ cm.vmin = -2 /\ cm.vmax = 4
    /\ cm.result.segmentdata[129].x = Frac(1, 3)
    /\ cm.result.segmentdata[129].colour = <<cm.cmap, Frac(1, 2)>>
    /\ cm.result.segmentdata[128].x = Frac(127, 384)

---------------------------------------------------------------------------
(* Properties of two calls of read_file_custom on the same arguments *)

---------------------------------------------------------------------------
(* Properties of reports with several TEST CASE sections *)

\* the text of a header between the marker and "(yrs "
C12_RunText(line) == Split(Split(line, TEST_MARK)[2], YRS_MARK)[1]

\* the text of a header between "(yrs " and the next ")"
C12_YearsText(line) ==
    Split(Split(Split(line, TEST_MARK)[2], YRS_MARK)[2], RPAREN)[1]

\* C12: every emitted record has a TEST CASE line before its source line, and
\* its run and years are those of the most recent such line (the run up to the
\* blanks around it): records between two headers carry the earlier header's
\* run and years, a new header changes them for the later records only.
C12_RunYearsOfLatestHeader ==
    \A r \in RecIdx :
       LET h == HeaderBefore(src[r])
       IN  /\ h > 0
           /\ Strip(data[r][1]) = Strip(C12_RunText(lines[h]))
           /\ data[r][2] = C12_YearsText(lines[h])

\* a returned table with a record of run1 followed by a record of run2
C12_Witness ==
    /\ pc = "done"
    /\ Len(df) = 2
    /\ Strip(df[1].Run) = <<"run1">> /\ df[1].Years = <<"1980-2000">>
    /\ Strip(df[2].Run) = <<"run2">> /\ df[2].Years = <<"2001-2010">>

\* the step handles the current line as a TEST CASE header and as nothing else
C13_AsHeaderOnly ==
    /\ control_case' = control_case
    /\ in_data' = in_data
    /\ data' = data
    /\ pc' = "loop" =>
          /\ Strip(test_case') = Strip(C12_RunText(lines[i]))
          /\ years' = C12_YearsText(lines[i])
          /\ header' = HeaderCols

\* the step handles the current line as a CONTROL CASE line and as nothing else
C13_AsControlOnly ==
    /\ control_case' = Strip(Split(lines[i], CTRL_MARK)[2])
    /\ UNCHANGED <<test_case, years, header, in_data, data>>
    /\ pc' = "loop"

\* the step handles the current line as the "Variable" line and as nothing else
C13_AsVariableOnly ==
    /\ in_data' = TRUE
    /\ UNCHANGED <<test_case, years, header, control_case, data>>
    /\ pc' = "loop"

\* the step ignores the current line
C13_AsIgnored ==
    /\ UNCHANGED <<test_case, years, header, control_case, in_data, data>>
    /\ pc' = "loop"

\* C13: every line is handled by the first rule that matches, in the order
\* "TEST CASE:" > "CONTROL CASE:" > "Variable" > data row (in the data section)
\* > ignored: a line holding "TEST CASE:" is handled as a header only, also
\* when it holds the other markers; a line holding "Variable" and neither of
\* the two markers sets in_data and emits no record, also inside the data
\* section and when it reads like a row of four numbers.
C13_FirstMatchingRule ==
    [][AtLine =>
         LET line == lines[i]
         IN  IF Contains(line, TEST_MARK) THEN C13_AsHeaderOnly
             ELSE IF Contains(line, CTRL_MARK) THEN C13_AsControlOnly
             ELSE IF Contains(line, VAR_MARK) THEN C13_AsVariableOnly
             ELSE IF ~in_data THEN C13_AsIgnored
             ELSE /\ UNCHANGED <<test_case, years, header, control_case, in_data>>
                  /\ data' = data \/ (Len(data') = Len(data) + 1 /\ src'[Len(src')] = i)]_vars

\* the header H2, which also holds "CONTROL CASE:" and "Variable", was handled
\* outside the data section and left control_case and in_data alone; then the
\* line VR opened the data section and a second VR, a name and four numbers
\* inside the data section, emitted no record
C13_Witness ==
    /\ Len(lines) >= 3
    /\ lines[1] = H2 /\ lines[2] = VR /\ lines[3] = VR
    /\ i = 4
    /\ years = <<"2001-2010">>
    /\ control_case = <<>>
    /\ in_data
    /\ data = <<>>

\* the text of the line after the first occurrence of the marker
C14_Rest(line, mark) == SubSeq(line, IndexOf(line, mark) + 1, Len(line))

\* C14: handling a CONTROL CASE line sets control_case to the trimmed text
\* after the marker and leaves run, years, in_data and the emitted records as
\* they were.
C14_OnlyControlCase ==
    [][(AtLine /\ ~Contains(lines[i], TEST_MARK) /\ Contains(lines[i], CTRL_MARK)) =>
          /\ control_case' = Strip(C14_Rest(lines[i], CTRL_MARK))
          /\ UNCHANGED <<test_case, years, in_data, data>>]_vars

----------------------------------------------------------------------------
(* Properties of read_file_custom: the calls that end in an error *)

\* no line of the input holds "TEST CASE:"
C17_NoHeader == \A k \in LineIdx : ~IsTestCaseLine(lines[k])

\* C17: the call returns a table only if some line of the input holds
\* "TEST CASE:"; on an input without such a line the call ends in an error,
\* and when the loop got through all lines, rows or no rows, the error is the
\* unbound column names at the construction of the table.
C17_NoTableWithoutHeader ==
    /\ pc = "done" => ~C17_NoHeader
    /\ (C17_NoHeader /\ pc # "loop") => pc = "error"
    /\ (C17_NoHeader /\ pc = "error" /\ i > Len(lines)) =>
          /\ exc = "UnboundLocalError"
          /\ header = Unbound
          /\ df = <<>>

\* an input of lines that hold neither a header nor a row: the loop ended with
\* no record and the call failed at the construction of the table
C17_Witness ==
    /\ lines = <<CC, BL>>
    /\ i > Len(lines)
    /\ data = <<>>
    /\ pc = "error"
    /\ exc = "UnboundLocalError"

\* line k holds "TEST CASE:" and no "(yrs " after it
C18_NoYears(k) ==
    /\ Contains(lines[k], TEST_MARK)
    /\ ~Contains(C14_Rest(lines[k], TEST_MARK), YRS_MARK)

\* years as the lines before line k left it
C18_YearsBefore(k) ==
    IF HeaderBefore(k) > 0 THEN C12_YearsText(lines[HeaderBefore(k)]) ELSE Unbound

\* test_case as the lines before line k left it
C18_RunBefore(k) ==
    IF HeaderBefore(k) > 0 THEN TestCaseOf(lines[HeaderBefore(k)]) ELSE <<>>

\* the call never gets past a line k that holds "TEST CASE:" without "(yrs ":
\* it ends there in an IndexError, returns no table, and years is as before
C18_Aborts(k) ==
    /\ ~PassedLine(k)
    /\ pc # "done"
    /\ FailedAt(k) =>
          /\ exc = "IndexError"
          /\ df = <<>>
          /\ years = C18_YearsBefore(k)

\* C18 as stated: a line that holds "TEST CASE:" and no "(yrs " after it ends
\* the call in an error, no table is returned, and neither test_case nor years
\* is updated from the line.
C18_NoYearsLeavesRunAndYears ==
    \A k \in LineIdx :
       C18_NoYears(k) =>
          /\ C18_Aborts(k)
          /\ FailedAt(k) => test_case = C18_RunBefore(k)

\* C18, amended: a line that holds "TEST CASE:" and no "(yrs " after it ends
\* the call in an IndexError, no table is returned and the records of the
\* earlier lines are lost with the call; years is not updated from the line,
\* test_case is: it holds the text after the marker when the error is raised.
C18_NoYearsSetsRunThenAborts ==
    \A k \in LineIdx :
       C18_NoYears(k) =>
          /\ C18_Aborts(k)
          /\ FailedAt(k) => test_case = Strip(Split(lines[k], TEST_MARK)[2])

\* a header, the Variable line and a row, then the header HN without years:
\* the call failed at HN with one record in data and no table, years still
\* those of H1 and test_case already that of HN
C18_Witness ==
    /\ Len(lines) >= 4
    /\ lines[1] = H1 /\ lines[2] = VR /\ lines[3] = R4 /\ lines[4] = HN
    /\ FailedAt(4)
    /\ exc = "IndexError"
    /\ Len(data) = 1
    /\ df = <<>>
    /\ years = <<"1980-2000">>
    /\ test_case = <<"run3">>

----------------------------------------------------------------------------
(* Properties of read_var_info_michaels_excel *)

\* the rows of the sheet whose key cell holds the value key
C16_RowsOf(key) == {k \in 1..Len(xl.rows) : xl.rows[k].key = key}

\* the last of a non-empty set of row numbers
C16_Last(S) == CHOOSE k \in S : \A j \in S : j <= k

\* the returned mapping has exactly the keys of Keys, each with the description
\* of the last row that carries it
C16_ResultIs(Keys) ==
    /\ DOMAIN xl.result = Keys
    /\ \A key \in Keys : xl.result[key] = xl.rows[C16_Last(C16_RowsOf(key))].desc

\* C16 as stated: the returned mapping has exactly the non-empty values of the
\* key column as its keys, each with the description of the last row that
\* carries it.
C16_KeysAreNonEmptyCells ==
    xl.pc = "returned" =>
       C16_ResultIs({xl.rows[k].key : k \in 1..Len(xl.rows)} \ {Text("")})

\* C16, amended: the returned mapping has exactly the values of the key column
\* that Python takes as true (non-empty text, numbers other than 0) as its
\* keys, each with the description, possibly empty, of the last row that
\* carries it; the other rows contribute nothing.
C16_KeysAreTruthyCells ==
    xl.pc = "returned" =>
       C16_ResultIs({key \in {xl.rows[k].key : k \in 1..Len(xl.rows)} : Truthy(key)})

\* a sheet with the key TEMP in rows 1 and 3 under different descriptions and
\* the number 0 as the key of row 2: the mapping returned has the one key TEMP
\* with the description of row 3, which is empty
C16_Witness ==
    /\ xl.pc = "returned"
    /\ Len(xl.rows) = 3
    /\ xl.rows[1] = [key |-> Text("TEMP"), desc |-> Text("Temperature")]
    /\ xl.rows[2] = [key |-> Number(0), desc |-> Text("Rain")]
    /\ xl.rows[3] = [key |-> Text("TEMP"), desc |-> Text("")]
    /\ DOMAIN xl.result = {Text("TEMP")}
    /\ xl.result[Text("TEMP")] = Text("")

===========================================================================
